---- MODULE Spec2Model ----
(***************************************************************************)
(* Model of Simulator.c: a loader for a deterministic finite automaton     *)
(* described in a text file (LoadAutomaton), the simulation routine        *)
(* (ProcessString) and the driver (main) that classifies every line of a   *)
(* strings file.                                                           *)
(*                                                                         *)
(* A C string is a sequence of one-character strings (without the final    *)
(* NUL).  C arrays are functions over 0..n-1, restricted to the entries    *)
(* the program has written.                                                *)
(***************************************************************************)
EXTENDS Integers, Sequences, FiniteSets, TLC

VARIABLES
    pc,            \* position of main / LoadAutomaton
    autFile,       \* the file at automatonPath: [exists, content]
    strFile,       \* the file at stringPath: [exists, content]
    af,            \* FILE * f of LoadAutomaton: [open, content, pos, eof]
    sf,            \* FILE * f of main
    line,          \* static char line[] of GetLine
    a,             \* Automaton a of main
    initialState,  \* char initialState[] of LoadAutomaton
    from, symb, to,\* char from[], symb[], to[] of the transition loop
    loadRet,       \* value returned by LoadAutomaton (-1 before it returns)
    string, res,   \* argument and result of the last ProcessString call (res -1 before)
    reads,         \* transitionTable entries read by the last ProcessString call
    errout,        \* messages written to stderr
    out,           \* messages written to stdout
    exitCode       \* exit status of main (-1 while it runs)

vars == <<pc, autFile, strFile, af, sf, line, a, initialState, from, symb, to,
          loadRet, string, res, reads, errout, out, exitCode>>

----------------------------------------------------------------------------
(* Program constants *)

MAX_LINE_LENGTH == 4096
MAX_STATES == 256
MAX_SYMBOLS == 256

(* Characters *)
NL  == "\n"
SP  == " "
TAB == "\t"
HASH == "#"
NUL == "NUL"        \* the character that ends a C string

(* isspace() of the C library, on the characters that occur in the model *)
IsSpace(c) == c \in {SP, TAB, NL, "\r"}

----------------------------------------------------------------------------
(* stdio: fgets on a stream [content, pos, eof]; pos = characters consumed *)

\* the characters fgets stores: those after pos up to the first newline, at
\* most MAX_LINE_LENGTH - 1 of them; eof when the end of the file stops it
FgetsFrom(content, pos, buf) ==
    LET full == Len(content) - pos >= MAX_LINE_LENGTH - 1
        last == IF full THEN pos + MAX_LINE_LENGTH - 1 ELSE Len(content)
        hasNl == \E i \in (pos + 1)..last : content[i] = NL
        stop == IF hasNl
                THEN CHOOSE i \in (pos + 1)..last :
                        /\ content[i] = NL
                        /\ \A k \in (pos + 1)..(i - 1) : content[k] # NL
                ELSE last
    IN  [buf |-> buf \o SubSeq(content, pos + 1, stop), pos |-> stop,
         eof |-> ~hasNl /\ ~full]

(* fgets(line, MAX_LINE_LENGTH, f): NULL (and line untouched) when the end *)
(* of the file is met before any character was read                        *)
Fgets(f, buf) ==
    LET r == FgetsFrom(f.content, f.pos, <<>>) IN
    [null |-> (r.buf = <<>>),
     line |-> IF r.buf = <<>> THEN buf ELSE r.buf,
     f    |-> [f EXCEPT !.pos = r.pos, !.eof = f.eof \/ r.eof]]

\* GetLine(f): result [null, line, f]; when null is FALSE the returned
\* pointer is the static buffer, whose content is line
RECURSIVE GetLine(_, _)
GetLine(f, buf) ==
    LET r == Fgets(f, buf) IN
    IF r.null THEN [null |-> TRUE, line |-> r.line, f |-> r.f]
    ELSE IF ~r.f.eof /\ (Len(r.line) = 0 \/ r.line[1] = NL \/ r.line[1] = HASH)
         THEN GetLine(r.f, r.line)
    ELSE IF r.f.eof THEN [null |-> TRUE, line |-> r.line, f |-> r.f]
    ELSE LET nextlinePos == Len(r.line) - 1 IN
         IF nextlinePos <= 0 THEN [null |-> TRUE, line |-> r.line, f |-> r.f]
         ELSE IF r.line[nextlinePos + 1] = NL
              THEN [null |-> FALSE, line |-> SubSeq(r.line, 1, nextlinePos), f |-> r.f]
              ELSE [null |-> FALSE, line |-> r.line, f |-> r.f]

----------------------------------------------------------------------------
(* sscanf "%s": skip white space, then take the run of non-white-space     *)

RECURSIVE SkipWhite(_)
SkipWhite(str) ==
    IF str # <<>> /\ IsSpace(Head(str)) THEN SkipWhite(Tail(str)) ELSE str

RECURSIVE TakeWord(_)
TakeWord(str) ==
    IF str = <<>> \/ IsSpace(Head(str)) THEN <<>>
    ELSE <<Head(str)>> \o TakeWord(Tail(str))

RECURSIVE DropWord(_)
DropWord(str) ==
    IF str = <<>> \/ IsSpace(Head(str)) THEN str ELSE DropWord(Tail(str))

(* the word "%s" converts at the front of str; <<>> when the input ends first *)
ScanWord(str) == TakeWord(SkipWhite(str))

(* what is left of str after "%s" *)
ScanRest(str) == DropWord(SkipWhite(str))

\* the loop that advances strPtr to the next ' ' or to the end of the string
RECURSIVE SkipToBlank(_)
SkipToBlank(str) ==
    IF str # <<>> /\ Head(str) # SP THEN SkipToBlank(Tail(str)) ELSE str

\* the loop that advances strPtr over ' ' characters
RECURSIVE SkipBlanks(_)
SkipBlanks(str) ==
    IF str # <<>> /\ Head(str) = SP THEN SkipBlanks(Tail(str)) ELSE str

\* ReadWord(str, word): result [null, word, rest]; rest is the string the
\* returned pointer points to
ReadWord(str, word) ==
    IF ScanWord(str) = <<>>
    THEN [null |-> TRUE, word |-> word, rest |-> str]
    ELSE [null |-> FALSE, word |-> ScanWord(str), rest |-> SkipBlanks(SkipToBlank(str))]

(* s[0] of a C string *)
FirstChar(s) == IF s = <<>> THEN NUL ELSE s[1]

----------------------------------------------------------------------------
(* The Automaton structure.  statesNames, finishState and transitions are  *)
(* kept for the indices written so far; transitionTable is <<>> until it   *)
(* is allocated.  startStateIndex is -2 until it is assigned.              *)

EmptyAutomaton ==
    [statesNames |-> <<>>, statesNum |-> 0, finishState |-> <<>>,
     startStateIndex |-> -2, transitions |-> <<>>, transitionsNum |-> 0,
     transitionTable |-> <<>>]

(* arr with arr[i] = v, for a C array kept as a function over 0..n-1 *)
Store(arr, i, v) ==
    [k \in (DOMAIN arr) \cup {i} |-> IF k = i THEN v ELSE arr[k]]

RECURSIVE StateToIdxFrom(_, _, _)
StateToIdxFrom(aut, state, i) ==
    IF i >= aut.statesNum THEN -1
    ELSE IF state = aut.statesNames[i] THEN i
    ELSE StateToIdxFrom(aut, state, i + 1)

\* StateToIdx answering the first state when the name is not found
StateToIdxOrFirst(aut, state) ==
    IF StateToIdxFrom(aut, state, 0) = -1 THEN 0 ELSE StateToIdxFrom(aut, state, 0)

StateToIdx(aut, state) == StateToIdxFrom(aut, state, 0)

RECURSIVE TransitionToIdxFrom(_, _, _)
TransitionToIdxFrom(aut, transition, i) ==
    IF i >= aut.transitionsNum THEN -1
    ELSE IF transition = aut.transitions[i] THEN i
    ELSE TransitionToIdxFrom(aut, transition, i + 1)

TransitionToIdx(aut, transition) == TransitionToIdxFrom(aut, transition, 0)

----------------------------------------------------------------------------
(* The loops of LoadAutomaton *)

\* n rounds at most of  while ((states = ReadWord(states, curState)) != NULL):
\* every word becomes the next state name; result [a, states, curState, null],
\* null telling that ReadWord returned NULL
RECURSIVE ReadStatesRounds(_, _, _, _)
ReadStatesRounds(aut, states, curState, n) ==
    LET r == ReadWord(states, curState)
        stored == [aut EXCEPT
                      !.statesNames = Store(aut.statesNames, aut.statesNum, r.word),
                      !.statesNum = aut.statesNum + 1]
    IN
    IF r.null
    THEN [a |-> aut, states |-> states, curState |-> curState, null |-> TRUE]
    ELSE IF n = 1
    THEN [a |-> stored, states |-> r.rest, curState |-> r.word, null |-> FALSE]
    ELSE ReadStatesRounds(stored, r.rest, r.word, n - 1)

\* the whole loop, taken 32 rounds at a time so that a long line of state
\* names is evaluated without deep nesting
RECURSIVE ReadStates(_, _, _)
ReadStates(aut, states, curState) ==
    LET run == ReadStatesRounds(aut, states, curState, 32) IN
    IF run.null THEN run.a
    ELSE ReadStates(run.a, run.states, run.curState)

\* while ((transitions = ReadWord(transitions, curSymbol)) != NULL): the
\* first character of every word becomes the next symbol, unless it is
\* already one; result [a, err]
RECURSIVE ReadSymbols(_, _, _)
ReadSymbols(aut, transitions, curSymbol) ==
    LET r == ReadWord(transitions, curSymbol)
        c == FirstChar(r.word)
    IN
    IF r.null THEN [a |-> aut, err |-> "none"]
    ELSE IF \E t \in 0..(aut.transitionsNum - 1) : aut.transitions[t] = c
         THEN [a |-> aut, err |-> "SymbolTwice"]
    ELSE ReadSymbols([aut EXCEPT
                         !.transitions = Store(aut.transitions, aut.transitionsNum, c),
                         !.transitionsNum = aut.transitionsNum + 1],
                     r.rest, r.word)

\* while ((finishStates = ReadWord(finishStates, curState)) != NULL): every
\* word is resolved and flagged; result [a, err]
RECURSIVE ReadFinishStates(_, _, _)
ReadFinishStates(aut, finishStates, curState) ==
    LET r == ReadWord(finishStates, curState)
        idx == StateToIdx(aut, r.word)
    IN
    IF r.null THEN [a |-> aut, err |-> "none"]
    ELSE IF idx = -1 THEN [a |-> aut, err |-> "FinishNotListed"]
    ELSE IF aut.finishState[idx] = 1 THEN [a |-> aut, err |-> "DuplicatedFinish"]
    ELSE ReadFinishStates([aut EXCEPT !.finishState[idx] = 1], r.rest, r.word)

\* the table of statesNum rows and transitionsNum columns, every entry -1
InitTransitionTable(aut) ==
    [aut EXCEPT !.transitionTable =
        [i \in 0..(aut.statesNum - 1) |-> [j \in 0..(aut.transitionsNum - 1) |-> -1]]]

\* sscanf(transitionLine, "%s %s %s", ...): the words converted, at most three
ScanThree(str) ==
    LET w1 == ScanWord(str)
        r1 == ScanRest(str)
        w2 == ScanWord(r1)
        r2 == ScanRest(r1)
        w3 == ScanWord(r2)
    IN  IF w1 = <<>> THEN <<>>
        ELSE IF w2 = <<>> THEN <<w1>>
        ELSE IF w3 = <<>> THEN <<w1, w2>>
        ELSE <<w1, w2, w3>>

\* The loop body recording the state the transition leaves, not the one it enters
StoreTransitionFrom(aut, fromBuf, symbBuf, toBuf) ==
    LET fromIdx   == StateToIdx(aut, fromBuf)
        symbolIdx == TransitionToIdx(aut, FirstChar(symbBuf))
        toIdx     == StateToIdx(aut, toBuf)
    IN
    IF fromIdx = -1 \/ symbolIdx = -1 \/ toIdx = -1
    THEN [a |-> aut, err |-> "InvalidTransition"]
    ELSE IF aut.transitionTable[fromIdx][symbolIdx] # -1
    THEN [a |-> aut, err |-> "DuplicateTransition"]
    ELSE [a |-> [aut EXCEPT !.transitionTable[fromIdx][symbolIdx] = fromIdx],
          err |-> "none"]

\* The loop body without the test for a transition already loaded
StoreTransitionOverwrite(aut, fromBuf, symbBuf, toBuf) ==
    LET fromIdx   == StateToIdx(aut, fromBuf)
        symbolIdx == TransitionToIdx(aut, FirstChar(symbBuf))
        toIdx     == StateToIdx(aut, toBuf)
    IN
    IF fromIdx = -1 \/ symbolIdx = -1 \/ toIdx = -1
    THEN [a |-> aut, err |-> "InvalidTransition"]
    ELSE [a |-> [aut EXCEPT !.transitionTable[fromIdx][symbolIdx] = toIdx],
          err |-> "none"]

\* The loop body recording states counted from 1
StoreTransitionOneBased(aut, fromBuf, symbBuf, toBuf) ==
    LET fromIdx   == StateToIdx(aut, fromBuf)
        symbolIdx == TransitionToIdx(aut, FirstChar(symbBuf))
        toIdx     == StateToIdx(aut, toBuf)
    IN
    IF fromIdx = -1 \/ symbolIdx = -1 \/ toIdx = -1
    THEN [a |-> aut, err |-> "InvalidTransition"]
    ELSE IF aut.transitionTable[fromIdx][symbolIdx] # -1
    THEN [a |-> aut, err |-> "DuplicateTransition"]
    ELSE [a |-> [aut EXCEPT !.transitionTable[fromIdx][symbolIdx] = toIdx + 1],
          err |-> "none"]

\* The loop body looking for a recorded transition before it looks at toIdx
StoreTransitionDuplicateFirst(aut, fromBuf, symbBuf, toBuf) ==
    LET fromIdx   == StateToIdx(aut, fromBuf)
        symbolIdx == TransitionToIdx(aut, FirstChar(symbBuf))
        toIdx     == StateToIdx(aut, toBuf)
    IN
    IF fromIdx = -1 \/ symbolIdx = -1
    THEN [a |-> aut, err |-> "InvalidTransition"]
    ELSE IF aut.transitionTable[fromIdx][symbolIdx] # -1
    THEN [a |-> aut, err |-> "DuplicateTransition"]
    ELSE IF toIdx = -1
    THEN [a |-> aut, err |-> "InvalidTransition"]
    ELSE [a |-> [aut EXCEPT !.transitionTable[fromIdx][symbolIdx] = toIdx],
          err |-> "none"]

\* The body of the transition loop for one line, from, symb and to being the
\* buffers after sscanf: result [a, err]
StoreTransition(aut, fromBuf, symbBuf, toBuf) ==
    LET fromIdx   == StateToIdx(aut, fromBuf)
        symbolIdx == TransitionToIdx(aut, FirstChar(symbBuf))
        toIdx     == StateToIdx(aut, toBuf)
    IN
    IF fromIdx = -1 \/ symbolIdx = -1 \/ toIdx = -1
    THEN [a |-> aut, err |-> "InvalidTransition"]
    ELSE IF aut.transitionTable[fromIdx][symbolIdx] # -1
    THEN [a |-> aut, err |-> "DuplicateTransition"]
    ELSE [a |-> [aut EXCEPT !.transitionTable[fromIdx][symbolIdx] = toIdx],
          err |-> "none"]

----------------------------------------------------------------------------
(* ProcessString *)

\* for (i = 0; i < len; i++) if (TransitionToIdx(a, string[i]) == -1) return 2;
\* TRUE when the loop returns 2
RECURSIVE WrongSymbolFrom(_, _, _)
WrongSymbolFrom(aut, str, i) ==
    IF i >= Len(str) THEN FALSE
    ELSE IF TransitionToIdx(aut, str[i + 1]) = -1 THEN TRUE
    ELSE WrongSymbolFrom(aut, str, i + 1)

\* the simulation loop leaving the state it ends in as the start state
RECURSIVE SimulateMovingStart(_, _, _, _, _)
SimulateMovingStart(aut, str, i, currentState, rd) ==
    IF i >= Len(str)
    THEN [res |-> IF aut.finishState[currentState] # 0 THEN 0 ELSE 1,
          a |-> [aut EXCEPT !.startStateIndex = currentState], reads |-> rd]
    ELSE LET curSymbolIdx == TransitionToIdx(aut, str[i + 1])
             nextState == aut.transitionTable[currentState][curSymbolIdx]
             rd2 == Append(rd, <<currentState, curSymbolIdx>>)
         IN  IF nextState = -1 \/ nextState >= aut.statesNum
             THEN [res |-> 1, a |-> aut, reads |-> rd2]
             ELSE SimulateMovingStart(aut, str, i + 1, nextState, rd2)

\* the simulation loop from character i in state currentState, rd being the
\* table entries read so far: result [res, a, reads]
RECURSIVE Simulate(_, _, _, _, _)
Simulate(aut, str, i, currentState, rd) ==
    IF i >= Len(str)
    THEN [res |-> IF aut.finishState[currentState] # 0 THEN 0 ELSE 1,
          a |-> aut, reads |-> rd]
    ELSE LET curSymbolIdx == TransitionToIdx(aut, str[i + 1])
             nextState == aut.transitionTable[currentState][curSymbolIdx]
             rd2 == Append(rd, <<currentState, curSymbolIdx>>)
         IN  IF nextState = -1 \/ nextState >= aut.statesNum
             THEN [res |-> 1, a |-> aut, reads |-> rd2]
             ELSE Simulate(aut, str, i + 1, nextState, rd2)

\* ProcessString with the simulation started in state 0 instead of the start state
ProcessStringFromZero(aut, str) ==
    IF WrongSymbolFrom(aut, str, 0)
    THEN [res |-> 2, a |-> aut, reads |-> <<>>]
    ELSE Simulate(aut, str, 0, 0, <<>>)

\* ProcessString with the symbol check made while simulating, not before
RECURSIVE SimulateChecking(_, _, _, _, _)
SimulateChecking(aut, str, i, currentState, rd) ==
    IF i >= Len(str)
    THEN [res |-> IF aut.finishState[currentState] # 0 THEN 0 ELSE 1,
          a |-> aut, reads |-> rd]
    ELSE LET curSymbolIdx == TransitionToIdx(aut, str[i + 1]) IN
         IF curSymbolIdx = -1 THEN [res |-> 2, a |-> aut, reads |-> rd]
         ELSE LET nextState == aut.transitionTable[currentState][curSymbolIdx]
                  rd2 == Append(rd, <<currentState, curSymbolIdx>>)
              IN  IF nextState = -1 \/ nextState >= aut.statesNum
                  THEN [res |-> 1, a |-> aut, reads |-> rd2]
                  ELSE SimulateChecking(aut, str, i + 1, nextState, rd2)

ProcessStringIncremental(aut, str) ==
    SimulateChecking(aut, str, 0, aut.startStateIndex, <<>>)

\* ProcessString that looks up the first transition before it tests the length
ProcessStringEagerRead(aut, str) ==
    IF WrongSymbolFrom(aut, str, 0)
    THEN [res |-> 2, a |-> aut, reads |-> <<>>]
    ELSE IF str = <<>> \/ aut.transitionsNum = 0
    THEN [res |-> 1, a |-> aut, reads |-> <<>>]
    ELSE Simulate(aut, str, 0, aut.startStateIndex, <<>>)

\* int ProcessString(Automaton * a, const char * string): result
\* [res, a, reads], a being the automaton as the call leaves it
ProcessString(aut, str) ==
    IF WrongSymbolFrom(aut, str, 0)
    THEN [res |-> 2, a |-> aut, reads |-> <<>>]
    ELSE Simulate(aut, str, 0, aut.startStateIndex, <<>>)

----------------------------------------------------------------------------
(* The files the program is run on *)

MaxTransLines == 2     \* lines after the four header lines of an automaton file
MaxStrLen == 4         \* length of a string handed to ProcessString directly

Even == <<"e", "v", "e", "n">>
Odd  == <<"o", "d", "d">>
Ev   == <<"e", "v">>
Zero == <<"0">>
One  == <<"1">>

Words2(x, y) == x \o <<SP>> \o y
Words3(x, y, z) == x \o <<SP>> \o y \o <<SP>> \o z

\* the header of the example: start even; states even odd; symbols 0 1; final even
ExampleHeader == <<Even, Words2(Even, Odd), Words2(Zero, One), Even>>

ExampleTransitions ==
    <<Words3(Even, Zero, Even), Words3(Even, One, Odd),
      Words3(Odd, Zero, Odd), Words3(Odd, One, Even)>>

Headers ==
    { ExampleHeader,
      <<Odd, Words2(Even, Odd), Words2(Zero, One), Words2(Even, Odd)>>,
      <<Odd, Words2(Even, Odd), Words2(Zero, One), Odd>>,
      <<Ev, Words2(Even, Odd), Words2(Zero, One), Even>>,                \* start not a state
      <<Even \o <<SP>>, Words2(Even, Odd), Words2(Zero, One), Even>>,     \* blank after start
      <<Even, <<SP>> \o Words2(Even, Odd), Words2(Zero, One), Odd>>,     \* leading blank
      <<Even, Words3(Even, Even, Odd), Zero, Even>>,                     \* state named twice
      <<Odd, Even \o <<TAB>> \o Odd, Words2(Zero, One), Even>>,          \* tab between states
      <<Even, Words2(Even, Odd), Words2(Zero, Zero), Even>>,             \* symbol twice
      <<Even, Words2(Even, Odd), Words2(<<"0", "1">>, One), Odd>>,       \* symbol word "01"
      <<Even, Words2(Even, Odd), <<SP>>, Even>>,                         \* no symbol
      <<Even, Words2(Even, Odd), Words2(Zero, One), Ev>>,                \* final not a state
      <<Even, Words2(Even, Odd), Words2(Zero, One), Words2(Even, Even)>>,\* final twice
      <<Even, Words2(Even, Odd), Words2(Zero, One), <<SP>>>>,            \* final line of a blank
      <<Even, Words2(Even, Odd), Words2(Zero, One), <<>>>>,              \* empty final line
      <<<<HASH, "c">>, Even, <<>>, Words2(Even, Odd), Words2(Zero, One), Even>>,
      <<>>, <<Even>>, <<Even, Words2(Even, Odd)>>,
      <<Even, Words2(Even, Odd), Words2(Zero, One)>> }

TransLines ==
    { Words3(Even, Zero, Even),
      Words3(Even, Zero, Odd),
      Words3(Odd, One, Even),
      Words2(Even, One),                          \* two words
      Words3(Ev, Zero, Even),                     \* from is not a state
      Words3(Even, One, Odd) \o <<SP>> \o Odd,    \* four words
      <<HASH>> \o Words3(Even, Zero, Even) }      \* comment

RECURSIVE SeqsUpTo(_, _)
SeqsUpTo(S, n) ==
    IF n = 0 THEN {<<>>}
    ELSE LET shorter == SeqsUpTo(S, n - 1) IN
         shorter \cup {Append(q, x) : q \in {t \in shorter : Len(t) = n - 1}, x \in S}

\* the characters of a file whose lines are ls; terminated tells whether the
\* last line ends with a newline
RECURSIVE FileContent(_, _)
FileContent(ls, terminated) ==
    IF ls = <<>> THEN <<>>
    ELSE IF Len(ls) = 1 THEN Head(ls) \o (IF terminated THEN <<NL>> ELSE <<>>)
    ELSE Head(ls) \o <<NL>> \o FileContent(Tail(ls), terminated)

NoFile == [exists |-> FALSE, content |-> <<>>]
File(ls, terminated) == [exists |-> TRUE, content |-> FileContent(ls, terminated)]

ExampleFile == File(ExampleHeader \o ExampleTransitions, TRUE)

\* n times the state name e on one line
E == <<"e">>
ManyStates(n) == [i \in 1..(2 * n - 1) |-> IF i % 2 = 1 THEN "e" ELSE SP]

\* a file with one state name more than the arrays of Automaton hold
OverfullFile ==
    File(<<E, ManyStates(MAX_STATES + 1), Words2(Zero, One), E, Words3(E, Zero, E)>>,
         TRUE)

AutFiles ==
    {NoFile, ExampleFile, OverfullFile}
    \cup {File(h \o t, term) : h \in Headers, t \in SeqsUpTo(TransLines, MaxTransLines),
                               term \in BOOLEAN}

Two == <<"2">>

StrFiles ==
    {NoFile}
    \cup {File(ls, term) :
            ls \in { <<>>, <<One>>, <<One, One>>, <<Zero \o One, <<>>, One \o One>>,
                     <<One \o Zero \o Two, Zero>>, <<<<HASH>> \o One, One, Zero>>,
                     <<Words2(One, One), One \o One \o Zero>> },
            term \in BOOLEAN}

\* the strings of at most n characters of S
Strings(S, n) == SeqsUpTo(S, n)

Closed == [open |-> FALSE, content |-> <<>>, pos |-> 0, eof |-> FALSE]
Fopen(file) == [open |-> TRUE, content |-> file.content, pos |-> 0, eof |-> FALSE]

\* the values an unassigned char array may hold: what the previous round of
\* the loop left in it, or whatever the stack held
Indeterminate(old) == {old, <<>>, Even, Zero}

----------------------------------------------------------------------------
(* Initial state: main has read the two paths *)

InitWith(files) ==
    /\ pc = "load_open"
    /\ autFile \in files
    /\ strFile = NoFile
    /\ af = Closed
    /\ sf = Closed
    /\ line = <<>>
    /\ a = EmptyAutomaton
    /\ initialState = <<>>
    /\ from = <<>>
    /\ symb = <<>>
    /\ to = <<>>
    /\ loadRet = -1
    /\ string = <<>>
    /\ res = -1
    /\ reads = <<>>
    /\ errout = <<>>
    /\ out = <<>>
    /\ exitCode = -1

Init == InitWith(AutFiles)

mainVars == <<strFile, sf, string, res, reads, out, exitCode>>

\* the failing return without the message
LoadFailsSilently(msg, f, buf, aut) ==
    /\ errout' = errout
    /\ af' = [f EXCEPT !.open = FALSE]
    /\ line' = buf
    /\ a' = aut
    /\ loadRet' = 1
    /\ pc' = "main_check"

\* fprintf(stderr, msg); fclose(f); return 1;  with the stream and the static
\* buffer as GetLine left them and the automaton as built so far
LoadFails(msg, f, buf, aut) ==
    /\ errout' = Append(errout, msg)
    /\ af' = [f EXCEPT !.open = FALSE]
    /\ line' = buf
    /\ a' = aut
    /\ loadRet' = 1
    /\ pc' = "main_check"

\* The store a->statesNames[a->statesNum] = ... with statesNum >= MAX_STATES
\* writes past the array, over statesNum and finishState: the behaviour is
\* undefined. The program either goes on as if the array were longer or is
\* killed (SIGSEGV) inside the loop.
Killed(f, buf, aut) ==
    /\ af' = f
    /\ line' = buf
    /\ a' = aut
    /\ pc' = "killed"
    /\ UNCHANGED <<errout, loadRet>>

\* LoadAutomaton up to fopen
LoadOpen ==
    /\ pc = "load_open"
    /\ a' = [a EXCEPT !.statesNum = 0, !.transitionsNum = 0]
    /\ IF ~autFile.exists
       THEN /\ errout' = Append(errout, "FileNotFound")
            /\ loadRet' = 1
            /\ pc' = "main_check"
            /\ UNCHANGED af
       ELSE /\ af' = Fopen(autFile)
            /\ pc' = "load_initial"
            /\ UNCHANGED <<errout, loadRet>>
    /\ UNCHANGED <<autFile, line, initialState, from, symb, to>>
    /\ UNCHANGED mainVars

\* Load initial state
LoadInitialState ==
    /\ pc = "load_initial"
    /\ LET g == GetLine(af, line) IN
       IF g.null
       THEN /\ LoadFails("CannotReadInitialState", g.f, g.line, a)
            /\ UNCHANGED initialState
       ELSE /\ initialState' = g.line
            /\ line' = g.line
            /\ af' = g.f
            /\ pc' = "load_states"
            /\ UNCHANGED <<a, errout, loadRet>>
    /\ UNCHANGED <<autFile, from, symb, to>>
    /\ UNCHANGED mainVars

\* Load states string, assign the states to numbers, evaluate start state index
LoadStates ==
    /\ pc = "load_states"
    /\ LET g == GetLine(af, line) IN
       IF g.null
       THEN LoadFails("CannotReadStates", g.f, g.line, a)
       ELSE LET a1 == ReadStates(a, g.line, <<>>)
                a2 == [a1 EXCEPT !.startStateIndex = StateToIdx(a1, initialState)]
            IN  \/ IF a2.startStateIndex = -1
                   THEN LoadFails("StartStateNotListed", g.f, g.line, a2)
                   ELSE /\ a' = a2
                        /\ line' = g.line
                        /\ af' = g.f
                        /\ pc' = "load_symbols"
                        /\ UNCHANGED <<errout, loadRet>>
                \/ /\ a1.statesNum > MAX_STATES
                   /\ Killed(g.f, g.line, a1)
    /\ UNCHANGED <<autFile, initialState, from, symb, to>>
    /\ UNCHANGED mainVars

\* Read symbol table
LoadSymbols ==
    /\ pc = "load_symbols"
    /\ LET g == GetLine(af, line) IN
       IF g.null
       THEN LoadFails("CannotReadSymbols", g.f, g.line, a)
       ELSE LET r == ReadSymbols(a, g.line, <<>>) IN
            IF r.err # "none"
            THEN LoadFails(r.err, g.f, g.line, r.a)
            ELSE /\ a' = r.a
                 /\ line' = g.line
                 /\ af' = g.f
                 /\ pc' = "load_finish"
                 /\ UNCHANGED <<errout, loadRet>>
    /\ UNCHANGED <<autFile, initialState, from, symb, to>>
    /\ UNCHANGED mainVars

\* Read finish states
LoadFinishStates ==
    /\ pc = "load_finish"
    /\ LET a0 == [a EXCEPT !.finishState = [i \in 0..(a.statesNum - 1) |-> 0]]
           g == GetLine(af, line)
       IN
       IF g.null
       THEN LoadFails("CannotReadFinishStates", g.f, g.line, a0)
       ELSE LET r == ReadFinishStates(a0, g.line, <<>>) IN
            IF r.err # "none"
            THEN LoadFails(r.err, g.f, g.line, r.a)
            ELSE /\ a' = r.a
                 /\ line' = g.line
                 /\ af' = g.f
                 /\ pc' = "load_table"
                 /\ UNCHANGED <<errout, loadRet>>
    /\ UNCHANGED <<autFile, initialState, from, symb, to>>
    /\ UNCHANGED mainVars

\* Initialize transition table
LoadTable ==
    /\ pc = "load_table"
    /\ a' = InitTransitionTable(a)
    /\ pc' = "load_trans"
    /\ UNCHANGED <<autFile, af, line, initialState, from, symb, to, loadRet, errout>>
    /\ UNCHANGED mainVars

\* One round of "Load transition table from file": the next line, or the
\* end of LoadAutomaton when GetLine returns NULL
LoadTransition ==
    /\ pc = "load_trans"
    /\ LET g == GetLine(af, line) IN
       IF g.null
       THEN /\ af' = [g.f EXCEPT !.open = FALSE]
            /\ line' = g.line
            /\ loadRet' = 0
            /\ pc' = "main_check"
            /\ UNCHANGED <<a, from, symb, to, errout>>
       ELSE LET w == ScanThree(g.line) IN
            \E fromBuf \in (IF Len(w) >= 1 THEN {w[1]} ELSE Indeterminate(from)),
               symbBuf \in (IF Len(w) >= 2 THEN {w[2]} ELSE Indeterminate(symb)),
               toBuf   \in (IF Len(w) >= 3 THEN {w[3]} ELSE Indeterminate(to)) :
                LET r == StoreTransition(a, fromBuf, symbBuf, toBuf) IN
                /\ from' = fromBuf
                /\ symb' = symbBuf
                /\ to' = toBuf
                /\ IF r.err # "none"
                   THEN LoadFails(r.err, g.f, g.line, r.a)
                   ELSE /\ a' = r.a
                        /\ line' = g.line
                        /\ af' = g.f
                        /\ pc' = "load_trans"
                        /\ UNCHANGED <<errout, loadRet>>
    /\ UNCHANGED <<autFile, initialState>>
    /\ UNCHANGED mainVars

LoadAutomaton ==
    \/ LoadOpen
    \/ LoadInitialState
    \/ LoadStates
    \/ LoadSymbols
    \/ LoadFinishStates
    \/ LoadTable
    \/ LoadTransition

----------------------------------------------------------------------------
(* main *)

loadVars == <<autFile, af, initialState, from, symb, to, loadRet>>

\* main going on whatever LoadAutomaton returned
MainIgnoresLoad ==
    /\ pc = "main_check"
    /\ pc' = "main_open"
    /\ UNCHANGED <<errout, exitCode>>
    /\ UNCHANGED <<strFile, sf, string, res, reads, out, line, a>>
    /\ UNCHANGED loadVars

\* if (LoadAutomaton(&a, automatonPath)) { ...; return 1; }
MainCheckLoad ==
    /\ pc = "main_check"
    /\ IF loadRet # 0
       THEN /\ errout' = Append(errout, "CouldNotLoad")
            /\ exitCode' = 1
            /\ pc' = "exit"
       ELSE /\ pc' = "main_open"
            /\ UNCHANGED <<errout, exitCode>>
    /\ UNCHANGED <<strFile, sf, string, res, reads, out, line, a>>
    /\ UNCHANGED loadVars

\* Open a file: the file found at stringPath is any of StrFiles
MainOpenStrings ==
    /\ pc = "main_open"
    /\ \E file \in StrFiles :
         /\ strFile' = file
         /\ IF ~file.exists
            THEN /\ out' = Append(out, [kind |-> "CANNOT OPEN", line |-> <<>>])
                 /\ exitCode' = 1
                 /\ pc' = "exit"
                 /\ UNCHANGED sf
            ELSE /\ sf' = Fopen(file)
                 /\ pc' = "main_loop"
                 /\ UNCHANGED <<out, exitCode>>
    /\ UNCHANGED <<string, res, reads, errout, line, a>>
    /\ UNCHANGED loadVars

\* the switch on the result of ProcessString: what is printed
Verdict(r) ==
    CASE r = 0 -> <<"ACCEPTED LINE">>
      [] r = 1 -> <<"REJECTED LINE">>
      [] r = 2 -> <<"WRONG SYMBOL">>
      [] r = 3 -> <<"UNKNOWN ERROR">>
      [] OTHER -> <<>>

\* One round of "Process every string from this file"
MainProcessLine ==
    /\ pc = "main_loop"
    /\ LET g == GetLine(sf, line) IN
       IF g.null
       THEN /\ sf' = [g.f EXCEPT !.open = FALSE]
            /\ line' = g.line
            /\ exitCode' = 0
            /\ pc' = "exit"
            /\ UNCHANGED <<a, string, res, reads, out>>
       ELSE LET r == ProcessString(a, g.line) IN
            /\ sf' = g.f
            /\ line' = g.line
            /\ a' = r.a
            /\ string' = g.line
            /\ res' = r.res
            /\ reads' = r.reads
            /\ out' = out \o [i \in 1..Len(Verdict(r.res)) |->
                                 [kind |-> Verdict(r.res)[i], line |-> g.line]]
            /\ pc' = "main_loop"
            /\ UNCHANGED exitCode
    /\ UNCHANGED <<strFile, errout>>
    /\ UNCHANGED loadVars

Next == LoadAutomaton \/ MainCheckLoad \/ MainOpenStrings \/ MainProcessLine

Spec == Init /\ [][Next]_vars

----------------------------------------------------------------------------
(* ProcessString applied to the loaded automaton and any string *)

InputChars == {"0", "1", "2"}

CallProcessString ==
    /\ pc = "main_check"
    /\ loadRet = 0
    /\ \E s \in Strings(InputChars, MaxStrLen) :
         LET r == ProcessString(a, s) IN
         /\ a' = r.a
         /\ string' = s
         /\ res' = r.res
         /\ reads' = r.reads
    /\ pc' = "called"
    /\ UNCHANGED <<strFile, sf, out, exitCode, errout, line>>
    /\ UNCHANGED loadVars

NextCall == LoadAutomaton \/ CallProcessString

SpecCall == Init /\ [][NextCall]_vars

InitExample == InitWith({ExampleFile})

SpecExample == InitExample /\ [][NextCall]_vars

----------------------------------------------------------------------------
(* What a deterministic automaton does with a string, stated on the loaded *)
(* tables without the code's loops                                         *)

InAlphabet(aut, c) == \E t \in 0..(aut.transitionsNum - 1) : aut.transitions[t] = c

OverAlphabet(aut, str) == \A i \in 1..Len(str) : InAlphabet(aut, str[i])

SymbolOf(aut, c) == CHOOSE t \in 0..(aut.transitionsNum - 1) : aut.transitions[t] = c

\* the state reached from state by str, -1 when a transition is not defined
RECURSIVE Reach(_, _, _)
Reach(aut, state, str) ==
    IF str = <<>> THEN state
    ELSE LET n == aut.transitionTable[state][SymbolOf(aut, Head(str))] IN
         IF n = -1 THEN -1 ELSE Reach(aut, n, Tail(str))

Accepts(aut, str) ==
    /\ Reach(aut, aut.startStateIndex, str) # -1
    /\ aut.finishState[Reach(aut, aut.startStateIndex, str)] = 1

\* the prefixes of str
Prefixes(str) == {SubSeq(str, 1, n) : n \in 0..Len(str)}

----------------------------------------------------------------------------
(* Claims *)

\* C1: for a loaded automaton and a string of alphabet characters only,
\* ProcessString returns 0 (Accepted) exactly when every character is
\* consumed through a defined transition from the start state and the state
\* reached is final, and 1 (Rejected) otherwise; never 2 or another value.
C1_AcceptsExactlyTheLanguage ==
    (pc = "called" /\ OverAlphabet(a, string))
        => /\ res \in {0, 1}
           /\ (res = 0) <=> Accepts(a, string)

C1_Witness ==
    /\ pc = "called"
    /\ OverAlphabet(a, string)
    /\ Len(string) >= 2
    /\ res = 0
    /\ a.startStateIndex # 0

\* C2: a string with a character that is not in the alphabet, at any
\* position, makes ProcessString return 2 (InvalidSymbol), also when a prefix
\* before that character already meets an undefined transition.
C2_WrongSymbolAnywhere ==
    (pc = "called" /\ ~OverAlphabet(a, string)) => res = 2

C2_Witness ==
    /\ pc = "called"
    /\ res = 2
    /\ \E p \in Prefixes(string) :
         /\ p # string
         /\ OverAlphabet(a, p)
         /\ Reach(a, a.startStateIndex, p) = -1

\* C3: on the empty string ProcessString returns 0 iff the start state is a
\* final state and 1 otherwise, and reads no entry of the transition table.
C3_EmptyString ==
    (pc = "called" /\ string = <<>>)
        => /\ res = (IF a.finishState[a.startStateIndex] = 1 THEN 0 ELSE 1)
           /\ reads = <<>>

C3_Witness ==
    /\ pc = "called"
    /\ string = <<>>
    /\ res = 0
    /\ a.transitionsNum > 0
    /\ a.startStateIndex # 0

\* the number of '1' characters of str
RECURSIVE CountOnes(_)
CountOnes(str) ==
    IF str = <<>> THEN 0
    ELSE (IF Head(str) = "1" THEN 1 ELSE 0) + CountOnes(Tail(str))

\* C4: the example file (start even, states even odd, symbols 0 1, final
\* even, four transitions, every line ended by a newline) loads, and
\* ProcessString then returns 0 for the strings over {0,1} with an even
\* number of '1' (the empty string too), 1 for the other strings over {0,1},
\* and 2 for every string with another character, such as "102".
C4_EvenOnes ==
    /\ pc \in {"main_check", "called"} => loadRet = 0
    /\ pc = "called" =>
         res = (IF \E i \in 1..Len(string) : string[i] \notin {"0", "1"} THEN 2
                ELSE IF CountOnes(string) % 2 = 0 THEN 0
                ELSE 1)

C4_Witness ==
    /\ pc = "called"
    /\ autFile = ExampleFile
    /\ string = <<"1", "0", "2">>
    /\ res = 2

\* the verdicts printed so far for one and the same line are the same
SameLineSameVerdict ==
    \A i, j \in 1..Len(out) : out[i].line = out[j].line => out[i].kind = out[j].kind

RECURSIVE Pieces(_, _)
Pieces(str, seps) ==
    LET n == Len(str)
        mid == (n + 1) \div 2
        IsSep(i) == i \in 1..n /\ str[i] \in seps
        d == CHOOSE k \in 0..n : IsSep(mid + k) \/ IsSep(mid - k)
        cut == IF IsSep(mid + d) THEN mid + d ELSE mid - d
    IN
    IF \A i \in 1..n : str[i] \notin seps
    THEN (IF str = <<>> THEN <<>> ELSE <<str>>)
    ELSE Pieces(SubSeq(str, 1, cut - 1), seps) \o Pieces(SubSeq(str, cut + 1, n), seps)

White == {SP, TAB, NL, "\r"}

\* the words of a line, in order: its maximal runs of characters that are not
\* white space
WordList(str) == Pieces(str, White)

\* the set of the words of a line
WordsOf(str) == {WordList(str)[i] : i \in 1..Len(WordList(str))}

C8_IndicesInRange ==
    loadRet = 0 =>
        /\ a.statesNum > 0
        /\ a.startStateIndex \in 0..(a.statesNum - 1)
        /\ DOMAIN a.finishState = 0..(a.statesNum - 1)
        /\ \A i \in DOMAIN a.finishState : a.finishState[i] \in {0, 1}
        /\ DOMAIN a.transitionTable = 0..(a.statesNum - 1)
        /\ \A s \in DOMAIN a.transitionTable :
             /\ DOMAIN a.transitionTable[s] = 0..(a.transitionsNum - 1)
             /\ \A c \in DOMAIN a.transitionTable[s] :
                  a.transitionTable[s][c] \in {-1} \cup 0..(a.statesNum - 1)
        /\ \A k \in 1..Len(reads) :
             /\ reads[k][1] \in 0..(a.statesNum - 1)
             /\ reads[k][2] \in 0..(a.transitionsNum - 1)

C8_Witness ==
    /\ pc = "called"
    /\ loadRet = 0
    /\ Len(reads) >= 2
    /\ reads[1] # reads[2]

\* C9: in an automaton that LoadAutomaton returned 0 for, the state names
\* are pairwise distinct and the symbols are pairwise distinct.
C9_NamesAndSymbolsDistinct ==
    loadRet = 0 =>
        /\ \A i, j \in 0..(a.statesNum - 1) :
             i # j => a.statesNames[i] # a.statesNames[j]
        /\ \A i, j \in 0..(a.transitionsNum - 1) :
             i # j => a.transitions[i] # a.transitions[j]

\* C10: after LoadAutomaton has returned 1, main only ends, with exit status
\* 1: the strings file is never opened, ProcessString is never called and
\* nothing is printed on stdout.
C10_FailedLoadEndsMain ==
    loadRet = 1 =>
        /\ pc \in {"main_check", "exit"}
        /\ pc = "exit" => exitCode = 1
        /\ pc = "main_check" => exitCode = -1
        /\ strFile = NoFile
        /\ sf = Closed
        /\ res = -1
        /\ out = <<>>

C10_Witness ==
    /\ pc = "exit"
    /\ loadRet = 1
    /\ exitCode = 1
    /\ af.pos > 0

----------------------------------------------------------------------------
(* The lines of a file, stated on its characters without the code's loops *)

IsContentLine(l) == l # <<>> /\ l[1] # HASH

\* the lines of content that are neither empty nor comments, a last line
\* without newline included
ContentLines(content) == SelectSeq(Pieces(content, {NL}), IsContentLine)

LastOf(q) == q[Len(q)]

\* the messages LoadAutomaton writes
LoaderMessages ==
    {"FileNotFound", "CannotReadInitialState", "CannotReadStates",
     "StartStateNotListed", "CannotReadSymbols", "SymbolTwice",
     "CannotReadFinishStates", "FinishNotListed", "DuplicatedFinish",
     "InvalidTransition", "DuplicateTransition"}

\* C11 as claimed: a failed load puts exactly one message on stderr over the
\* whole run.
C11_OneMessage ==
    (pc = "exit" /\ loadRet = 1) => Len(errout) = 1

\* C11 as amended: a failed load puts exactly one message of LoadAutomaton on
\* stderr, naming what failed, and main adds "Could not load automation."
\* before it exits: two messages over the whole run; a load that does not
\* fail puts none.
C11_LoaderMessageThenMains ==
    /\ loadRet # 1 => errout = <<>>
    /\ loadRet = 1 =>
         /\ Len(errout) >= 1
         /\ errout[1] \in LoaderMessages
         /\ pc = "main_check" => Len(errout) = 1
         /\ pc = "exit" => errout = <<errout[1], "CouldNotLoad">>

C11_Witness ==
    /\ pc = "exit"
    /\ errout = <<"SymbolTwice", "CouldNotLoad">>

\* C12: when LoadAutomaton has returned 1, nothing built before the failure
\* is left in the caller's Automaton: no state name, no count, no symbol, no
\* final flag, no table.
C12_NothingLeftAfterFailure ==
    loadRet = 1 =>
        /\ a.statesNum = 0
        /\ a.transitionsNum = 0
        /\ a.statesNames = <<>>
        /\ a.transitions = <<>>
        /\ a.finishState = <<>>
        /\ a.transitionTable = <<>>

\* C13: the last line of a stream is returned by GetLine also when no
\* newline follows it: the last content line of the strings file gets the
\* last verdict, and the last transition line of the automaton file is the
\* last one the transition loop scans.
C13_LastLineIsReturned ==
    /\ (pc = "exit" /\ exitCode = 0 /\ ContentLines(strFile.content) # <<>>)
          => /\ out # <<>>
             /\ LastOf(out).line = LastOf(ContentLines(strFile.content))
    /\ ( /\ loadRet = 0
         /\ Len(ContentLines(autFile.content)) >= 5
         /\ Len(ScanThree(LastOf(ContentLines(autFile.content)))) = 3 )
          => <<from, symb, to>> = ScanThree(LastOf(ContentLines(autFile.content)))

\* C14: the words ReadWord yields for a line, call after call until NULL,
\* are the maximal runs of non-white-space of the line, each once, left to
\* right; seen on the state-set line, whose words become the state names.
C14_ReadWordYieldsTheWords ==
    pc = "load_symbols" =>
        [i \in 1..a.statesNum |-> a.statesNames[i - 1]] = WordList(line)

\* C15: a line of the transition section that has fewer or more than three
\* words makes the load fail and records no transition.
C15_ExactlyThreeTokens ==
    [][ ( /\ pc = "load_trans"
          /\ ~GetLine(af, line).null
          /\ Len(WordList(GetLine(af, line).line)) # 3 )
        => ( /\ loadRet' = 1
             /\ a'.transitionTable = a.transitionTable ) ]_vars

\* the characters of the stream that are not read yet
Unread(f) == SubSeq(f.content, f.pos + 1, Len(f.content))

NoFinalState(aut) == \A i \in DOMAIN aut.finishState : aut.finishState[i] = 0

\* C16 as claimed: when the line after the alphabet line is empty, the
\* final-states stage consumes that one line and goes on with no final state.
C16_EmptyFinalLine ==
    [][ ( /\ pc = "load_finish"
          /\ Unread(af) # <<>>
          /\ Head(Unread(af)) = NL )
        => ( /\ pc' = "load_table"
             /\ af'.pos = af.pos + 1
             /\ NoFinalState(a') ) ]_vars

\* what the loader does instead: a final-states line made of blanks only is
\* consumed as the final-states line and the load goes on with no final
\* state; an empty line is skipped, the next line that is neither empty nor a
\* comment is taken as the final-states line, and the load fails when there
\* is none.
BlankFinalLine ==
    /\ [][ ( /\ pc = "load_finish"
             /\ ~GetLine(af, line).null
             /\ WordList(GetLine(af, line).line) = <<>> )
           => ( /\ pc' = "load_table"
                /\ loadRet' = -1
                /\ af' = GetLine(af, line).f
                /\ NoFinalState(a') ) ]_vars
    /\ [][ ( /\ pc = "load_finish"
             /\ Unread(af) # <<>>
             /\ Head(Unread(af)) = NL )
           => \/ /\ loadRet' = 1
                 /\ errout' = <<"CannotReadFinishStates">>
                 /\ af'.eof
              \/ /\ af'.pos > af.pos + 1
                 /\ line' = Head(ContentLines(Unread(af))) ]_vars

BlankFinalLineLoaded ==
    /\ pc = "load_table"
    /\ line = <<SP>>
    /\ a.statesNum = 2
    /\ NoFinalState(a)

\* C17: when main ends after a successful load, stdout holds one verdict for
\* every line of the strings file that is neither empty nor a comment, with
\* the text of the line, in file order, each ACCEPTED, REJECTED or WRONG
\* SYMBOL.
C17_OneVerdictPerLine ==
    (pc = "exit" /\ exitCode = 0) =>
        /\ [i \in 1..Len(out) |-> out[i].line] = ContentLines(strFile.content)
        /\ \A i \in 1..Len(out) :
             out[i].kind \in {"ACCEPTED LINE", "REJECTED LINE", "WRONG SYMBOL"}

\* the alphabet check made inside the fold: each character is looked up as
\* it is reached, 2 (InvalidSymbol) when it is not in the alphabet,
\* 1 (Rejected) when the transition is not defined
RECURSIVE IncrementalFrom(_, _, _)
IncrementalFrom(aut, state, str) ==
    IF str = <<>> THEN (IF aut.finishState[state] = 1 THEN 0 ELSE 1)
    ELSE IF ~InAlphabet(aut, Head(str)) THEN 2
    ELSE LET n == aut.transitionTable[state][SymbolOf(aut, Head(str))] IN
         IF n = -1 THEN 1 ELSE IncrementalFrom(aut, n, Tail(str))

Incremental(aut, str) == IncrementalFrom(aut, aut.startStateIndex, str)

\* a transition that is not defined is met before the first character that
\* is not in the alphabet
RejectedBeforeWrongSymbol(aut, str) ==
    /\ ~OverAlphabet(aut, str)
    /\ \E p \in Prefixes(str) :
         /\ OverAlphabet(aut, p)
         /\ Reach(aut, aut.startStateIndex, p) = -1

\* C18 as claimed: for every loaded automaton and every input, the verdict
\* of ProcessString (alphabet check as a pre-scan) equals the verdict of the
\* fold that checks the alphabet incrementally.
C18_PreScanEqualsIncremental ==
    pc = "called" => res = Incremental(a, string)

\* C18 as amended: the two verdicts are equal except when the input has a
\* character outside the alphabet and an undefined transition is met before
\* the first such character; then the pre-scan gives 2 (InvalidSymbol) and
\* the incremental check gives 1 (Rejected).
C18_EqualUnlessRejectedFirst ==
    pc = "called" =>
        IF RejectedBeforeWrongSymbol(a, string)
        THEN res = 2 /\ Incremental(a, string) = 1
        ELSE res = Incremental(a, string)

C18_Witness ==
    /\ pc = "called"
    /\ Len(string) >= 2
    /\ res = 2
    /\ Incremental(a, string) = 1

\* the lines of content that end with a newline and are neither empty nor
\* comments
TerminatedLines(content) ==
    LET n == Len(content)
        end == CHOOSE i \in 1..n :
                  /\ content[i] = NL
                  /\ \A k \in (i + 1)..n : content[k] # NL
    IN  IF \A i \in 1..n : content[i] # NL THEN <<>>
        ELSE ContentLines(SubSeq(content, 1, end))

\* the lines GetLine has returned from the stream so far
LinesRead(f) == TerminatedLines(SubSeq(f.content, 1, f.pos))

AtEnd(f) == f.pos = Len(f.content)

LoadStages ==
    <<"load_open", "load_initial", "load_states", "load_symbols",
      "load_finish", "load_table", "load_trans">>

StageNo(p) == CHOOSE k \in 1..Len(LoadStages) : LoadStages[k] = p

\* the stage a message belongs to, as the number of lines the loader has
\* obtained when it prints it, and whether it reports a missing line
MessageLines ==
    [ CannotReadInitialState |-> 0, CannotReadStates |-> 1,
      StartStateNotListed |-> 2, CannotReadSymbols |-> 2, SymbolTwice |-> 3,
      CannotReadFinishStates |-> 3, FinishNotListed |-> 4,
      DuplicatedFinish |-> 4 ]

MissingLine ==
    {"CannotReadInitialState", "CannotReadStates", "CannotReadSymbols",
     "CannotReadFinishStates"}

TransitionResolves ==
    /\ StateToIdx(a, from) # -1
    /\ TransitionToIdx(a, FirstChar(symb)) # -1
    /\ StateToIdx(a, to) # -1

\* the message of a failed load is the one of the first stage, in file
\* order, that lacks its line or refuses it, and nothing of a later stage
\* has been built
EarliestError ==
    (loadRet = 1 /\ errout[1] # "FileNotFound") =>
        LET m == errout[1] IN
        /\ m \in MissingLine =>
             /\ AtEnd(af)
             /\ Len(TerminatedLines(autFile.content)) = MessageLines[m]
        /\ m \in (DOMAIN MessageLines) \ MissingLine =>
             /\ Len(LinesRead(af)) = MessageLines[m]
             /\ LastOf(LinesRead(af)) = line
        /\ m \in {"InvalidTransition", "DuplicateTransition"} =>
             /\ Len(LinesRead(af)) >= 5
             /\ LastOf(LinesRead(af)) = line
        /\ m \in DOMAIN MessageLines => a.transitionTable = <<>>
        /\ (m \in DOMAIN MessageLines /\ MessageLines[m] <= 3
              /\ m # "CannotReadFinishStates") => a.finishState = <<>>
        /\ (m \in DOMAIN MessageLines /\ MessageLines[m] <= 2)
              => a.transitionsNum = 0
        /\ (m \in DOMAIN MessageLines /\ MessageLines[m] <= 1)
              => a.statesNum = 0
        /\ m = "InvalidTransition" => ~TransitionResolves
        /\ m = "DuplicateTransition" =>
             /\ TransitionResolves
             /\ a.transitionTable[StateToIdx(a, from)]
                                 [TransitionToIdx(a, FirstChar(symb))] # -1

\* a step of the loader fails, returns 0, is killed while it stores the state
\* names, or goes to the next stage (or round of the transition loop) having
\* read one more line when the stage reads one
StageStep ==
    pc \in {"load_open", "load_initial", "load_states", "load_symbols",
            "load_finish", "load_table", "load_trans"}
    => \/ (pc' = "main_check" /\ loadRet' \in {0, 1})
       \/ (pc' = "killed" /\ loadRet' = -1 /\ pc = "load_states")
       \/ /\ loadRet' = -1
          /\ (StageNo(pc') = StageNo(pc) + 1) \/ (pc = "load_trans" /\ pc' = pc)
          /\ (pc \in {"load_open", "load_table"})
               \/ (Len(LinesRead(af')) = Len(LinesRead(af)) + 1)

NothingAfterFailure ==
    loadRet = 1 => UNCHANGED <<af, a, line, from, symb, to, loadRet>>

\* C19: the stages of LoadAutomaton run in the order start state, state set,
\* alphabet, final states, transitions; once the load has failed no line is
\* read and nothing is built any more; the message is the one of the
\* earliest failing stage or transition line, an unresolved token of a
\* transition line being reported before a duplicate; and a file with fewer
\* than four lines for the stages 1-4 never loads.
C19_FailFastInStageOrder ==
    /\ []EarliestError
    /\ [](loadRet = 0 => Len(TerminatedLines(autFile.content)) >= 4)
    /\ [][StageStep]_vars
    /\ [][NothingAfterFailure]_vars

C19_Witness ==
    /\ loadRet = 1
    /\ errout[1] = "InvalidTransition"
    /\ StateToIdx(a, from) # -1
    /\ TransitionToIdx(a, FirstChar(symb)) # -1
    /\ StateToIdx(a, to) = -1
    /\ a.transitionTable[StateToIdx(a, from)]
                        [TransitionToIdx(a, FirstChar(symb))] # -1

\* C20: in every state of LoadAutomaton the counts stay within the
\* capacities of the arrays, and no state name, final flag or symbol is
\* stored at an index at or beyond them.
C20_WithinCapacity ==
    /\ a.statesNum <= MAX_STATES
    /\ a.transitionsNum <= MAX_SYMBOLS
    /\ DOMAIN a.statesNames \subseteq 0..(MAX_STATES - 1)
    /\ DOMAIN a.finishState \subseteq 0..(MAX_STATES - 1)
    /\ DOMAIN a.transitions \subseteq 0..(MAX_SYMBOLS - 1)

====
